---- MODULE Spec2Model ----
(***************************************************************************)
(* A model of the market simulation core of AI-Econ-Lab:                   *)
(*   core/models.py             agents, orders, transactions, market state *)
(*   core/simulation_engine.py  MarketSimulation: gathering, matching,     *)
(*                              settlement, the round and the run loop     *)
(*                                                                         *)
(* Money is counted in mills (1/1000 of a currency unit), so that prices   *)
(* with three decimals and the effect of round(x, 2) are both exact.       *)
(* Python floats are modelled as exact decimals; inputs are chosen so that *)
(* no rounding tie (a third decimal of exactly 5) occurs, since on a tie   *)
(* the binary representation of the float decides the outcome.             *)
(*                                                                         *)
(* Python's None is the empty sequence <<>>, a present value x is <<x>>.   *)
(***************************************************************************)
EXTENDS Integers, Sequences, FiniteSets, TLC

VARIABLES
    agents,                 \* MarketSimulation.agents: sequence of agent records
    num_rounds,             \* MarketSimulation.num_rounds
    market_state,           \* MarketSimulation.market_state
    simulation_history,     \* MarketSimulation.simulation_history
    llm_operational_error,  \* MarketSimulation.llm_operational_error
    pc,                     \* position of the caller / of run_simulation
    loop_i,                 \* iterations of `for _ in range(num_rounds)` begun;
                            \* 0 while run_round runs on a call from outside
    shuffled_agents,        \* the part of shuffled_agents still to be polled
    actions,                \* the list `actions` of _gather_actions_from_agents
    returned,               \* the last value run_simulation returned
    poll_log,               \* the decide_action calls of the latest round
    failures,               \* the LLMAgent polls of the current run that
                            \* returned no action, in order
    match,                  \* locals of one _match_orders_simple_CDA call
    match_input,            \* the bids and asks that call was given
    setup,                  \* one call of run_marketplace_simulation, up to
                            \* the construction of the MarketSimulation
    decision,               \* one call of decide_action on an agent
    display                 \* the last value returned by
                            \* process_simulation_results_for_display

vars == <<agents, num_rounds, market_state, simulation_history,
          llm_operational_error, pc, loop_i, shuffled_agents, actions,
          returned, poll_log, failures, match, match_input, setup, decision,
          display>>

engine_vars == <<agents, num_rounds, market_state, simulation_history,
                 llm_operational_error, pc, loop_i, shuffled_agents, actions,
                 returned, poll_log, failures>>

\* the variables of the calls made outside MarketSimulation
aux_vars == <<setup, decision, display>>

----------------------------------------------------------------------------
(* Bounds of the model.                                                    *)

\* largest num_rounds a simulation is constructed with
MaxRounds == 2

\* largest order quantity fed directly to the matching engine
MaxQty == 5

----------------------------------------------------------------------------
(* Values.                                                                 *)

None == <<>>

Some(x) == <<x>>

\* SeqSum(s): sum of a sequence of integers
RECURSIVE SeqSum(_)
SeqSum(s) == IF s = <<>> THEN 0 ELSE Head(s) + SeqSum(Tail(s))

\* variant: the first argument whatever the second
MinFirst(a, b) == a

\* Python's min on two integers
Min(a, b) == IF a <= b THEN a ELSE b

\* round(num/den, 2) on a value in mills: the nearest multiple of 10 mills,
\* a tie going to the even cent.
Round2(num, den) ==
    LET cents == num \div (den * 10)
        rest  == num - cents * den * 10
    IN  IF 2 * rest < den * 10 THEN cents * 10
        ELSE IF 2 * rest > den * 10 THEN (cents + 1) * 10
        ELSE IF cents % 2 = 0 THEN cents * 10 ELSE (cents + 1) * 10

\* models.BidAsk
BidAsk(agent_id, bid_ask_type, price, quantity, round) ==
    [agent_id |-> agent_id, bid_ask_type |-> bid_ask_type, price |-> price,
     quantity |-> quantity, round |-> round]

\* models.Transaction
Transaction(buyer_id, seller_id, price, quantity, round) ==
    [buyer_id |-> buyer_id, seller_id |-> seller_id, price |-> price,
     quantity |-> quantity, round |-> round]

\* models.MarketState
MarketState(current_round, bids, asks, price_history, transaction_log) ==
    [current_round |-> current_round, bids |-> bids, asks |-> asks,
     price_history |-> price_history, transaction_log |-> transaction_log]

----------------------------------------------------------------------------
(* The matching engine: MarketSimulation._match_orders_simple_CDA.         *)

\* tuple comparison of the two-component sort keys
KeyLess(k, l) == k[1] < l[1] \/ (k[1] = l[1] /\ k[2] < l[2])

\* sorted(): the stable ascending order of the positions 1..Len(keys)
SortedIndices(keys) ==
    LET Rank(i) == 1 + Cardinality({j \in DOMAIN keys :
                        KeyLess(keys[j], keys[i]) \/ (keys[j] = keys[i] /\ j < i)})
    IN  [p \in 1..Len(keys) |-> CHOOSE i \in DOMAIN keys : Rank(i) = p]

\* variant: the bids are keyed like the asks, lowest price first
BidKeyAscending(b) == <<b.price, b.round>>

\* key=lambda b: (-b.price, b.round)
BidKey(b) == <<0 - b.price, b.round>>

\* key=lambda a: (a.price, a.round)
AskKey(a) == <<a.price, a.round>>

\* sorted_bids, as positions into bids (the sorted list shares the objects)
SortedBids(bids) == SortedIndices([i \in DOMAIN bids |-> BidKey(bids[i])])

\* variant: the asks are taken in the order they were given
SortedAsksUnsorted(asks) == [p \in 1..Len(asks) |-> p]

\* sorted_asks, as positions into asks
SortedAsks(asks) == SortedIndices([i \in DOMAIN asks |-> AskKey(asks[i])])

\* variant: the trade is priced at the ask instead of the midpoint
TradePriceAtAsk(bid_price, ask_price) == ask_price

\* trade_price = round((current_bid.price + current_ask.price) / 2.0, 2)
TradePrice(bid_price, ask_price) == Round2(bid_price + ask_price, 2)

\* variant: the comparison of the two prices is turned around
CrossesFlipped(bid_price, ask_price) == bid_price <= ask_price

\* the condition `current_bid.price >= current_ask.price`
Crosses(bid_price, ask_price) == bid_price >= ask_price

\* the locals at loop entry; cursors are 1-based
MatchStart(bids, asks, round) ==
    [bids |-> bids, asks |-> asks,
     sorted_bids |-> SortedBids(bids), sorted_asks |-> SortedAsks(asks),
     bid_idx |-> 1, ask_idx |-> 1, transactions |-> <<>>, round |-> round,
     running |-> TRUE]

\* the loop condition `bid_idx < len(sorted_bids) and ask_idx < len(sorted_asks)`
MatchInRange(m) ==
    m.bid_idx <= Len(m.sorted_bids) /\ m.ask_idx <= Len(m.sorted_asks)

\* variant: the cursor of the asks is not advanced past an exhausted ask
MatchIterAskCursorStays(m) ==
    IF ~MatchInRange(m) THEN [m EXCEPT !.running = FALSE]
    ELSE
    LET bi == m.sorted_bids[m.bid_idx]
        ai == m.sorted_asks[m.ask_idx]
        current_bid == m.bids[bi]
        current_ask == m.asks[ai]
        trade_quantity == Min(current_bid.quantity, current_ask.quantity)
        trade_price == TradePrice(current_bid.price, current_ask.price)
        traded == trade_quantity > 0
        bid_left == IF traded THEN current_bid.quantity - trade_quantity
                    ELSE current_bid.quantity
        ask_left == IF traded THEN current_ask.quantity - trade_quantity
                    ELSE current_ask.quantity
    IN  IF Crosses(current_bid.price, current_ask.price)
        THEN [m EXCEPT
                !.transactions = IF traded
                    THEN Append(@, Transaction(current_bid.agent_id,
                             current_ask.agent_id, trade_price, trade_quantity,
                             m.round))
                    ELSE @,
                !.bids[bi].quantity = bid_left,
                !.asks[ai].quantity = ask_left,
                !.bid_idx = IF bid_left = 0 THEN @ + 1 ELSE @]
        ELSE [m EXCEPT !.running = FALSE]

\* one evaluation of the while condition followed, when it holds, by the body
MatchIter(m) ==
    IF ~MatchInRange(m) THEN [m EXCEPT !.running = FALSE]
    ELSE
    LET bi == m.sorted_bids[m.bid_idx]
        ai == m.sorted_asks[m.ask_idx]
        current_bid == m.bids[bi]
        current_ask == m.asks[ai]
        trade_quantity == Min(current_bid.quantity, current_ask.quantity)
        trade_price == TradePrice(current_bid.price, current_ask.price)
        traded == trade_quantity > 0
        bid_left == IF traded THEN current_bid.quantity - trade_quantity
                    ELSE current_bid.quantity
        ask_left == IF traded THEN current_ask.quantity - trade_quantity
                    ELSE current_ask.quantity
    IN  IF Crosses(current_bid.price, current_ask.price)
        THEN [m EXCEPT
                !.transactions = IF traded
                    THEN Append(@, Transaction(current_bid.agent_id,
                             current_ask.agent_id, trade_price, trade_quantity,
                             m.round))
                    ELSE @,
                !.bids[bi].quantity = bid_left,
                !.asks[ai].quantity = ask_left,
                !.bid_idx = IF bid_left = 0 THEN @ + 1 ELSE @,
                !.ask_idx = IF ask_left = 0 THEN @ + 1 ELSE @]
        ELSE [m EXCEPT !.running = FALSE]

\* the whole call: iterate until the loop is left
RECURSIVE MatchRun(_)
MatchRun(m) == IF m.running THEN MatchRun(MatchIter(m)) ELSE m

\* _match_orders_simple_CDA(bids, asks) with self.market_state.current_round =
\* round: the final locals, holding the returned transactions and the orders
\* as the call leaves them
MatchOrdersSimpleCDA(bids, asks, round) == MatchRun(MatchStart(bids, asks, round))

----------------------------------------------------------------------------
(* Agents: models.Agent, RuleBasedAgent, LLMAgent.                         *)

\* models.AgentConfig; the four Optional fields are None or Some(value)
AgentConfig(agent_id, agent_type, initial_funds, initial_inventory, llm_persona_prompt_key, valuation_or_cost) ==
    [agent_id |-> agent_id, agent_type |-> agent_type,
     initial_funds |-> initial_funds, initial_inventory |-> initial_inventory,
     llm_persona_prompt_key |-> llm_persona_prompt_key,
     valuation_or_cost |-> valuation_or_cost]

\* Agent.__init__ ; kind is the class: "rule_based" (RuleBasedAgent), "llm"
\* (LLMAgent) or "custom" (any other subclass of Agent). funds and inventory
\* are Optional: None or Some(value). valuation_or_cost stands for
\* self.valuation_or_cost and self._config.valuation_or_cost.
NewAgent(config, kind) ==
    [agent_id |-> config.agent_id, agent_type |-> config.agent_type,
     kind |-> kind,
     funds |-> IF config.agent_type = "buyer" THEN config.initial_funds
               ELSE Some(0),
     inventory |-> IF config.agent_type = "buyer" THEN Some(0)
                   ELSE config.initial_inventory,
     valuation_or_cost |-> config.valuation_or_cost]

\* variant: the seller branch repeats the signs of the buyer branch
UpdateStateSellerAsBuyer(agent, transaction_price, transaction_quantity, is_buyer) ==
    [agent EXCEPT
        !.funds = IF @ = None THEN None
                  ELSE Some(@[1] - transaction_price * transaction_quantity),
        !.inventory = IF @ = None THEN None
                      ELSE Some(@[1] + transaction_quantity)]

\* Agent.update_state_after_transaction
UpdateStateAfterTransaction(agent, transaction_price, transaction_quantity, is_buyer) ==
    IF is_buyer
    THEN [agent EXCEPT
            !.funds = IF @ = None THEN None
                      ELSE Some(@[1] - transaction_price * transaction_quantity),
            !.inventory = IF @ = None THEN None
                          ELSE Some(@[1] + transaction_quantity)]
    ELSE [agent EXCEPT
            !.funds = IF @ = None THEN None
                      ELSE Some(@[1] + transaction_price * transaction_quantity),
            !.inventory = IF @ = None THEN None
                          ELSE Some(@[1] - transaction_quantity)]

\* random.uniform(0.80, 0.95), in thousandths: the draws the model takes
RuleBuyerDraws == {800, 950}

\* random.uniform(1.05, 1.20), in thousandths
RuleSellerDraws == {1050, 1200}

\* variant: a buyer bids the drawn price whether or not its funds cover it
RuleBasedDecideUnfunded(agent, snapshot, u) ==
    LET potential_price == Round2(u * agent.valuation_or_cost[1], 1000)
    IN  IF agent.valuation_or_cost # None /\ potential_price > 0
           /\ (agent.agent_type = "buyer" \/ (agent.inventory # None
                                               /\ agent.inventory[1] > 0))
        THEN Some(BidAsk(agent.agent_id,
                         IF agent.agent_type = "buyer" THEN "bid" ELSE "ask",
                         potential_price, 1, snapshot.current_round))
        ELSE None

\* RuleBasedAgent.decide_action, for the draw `u` of random.uniform
RuleBasedDecide(agent, snapshot, u) ==
    LET potential_price == Round2(u * agent.valuation_or_cost[1], 1000)
    IN  IF agent.agent_type = "buyer"
        THEN IF agent.funds # None /\ agent.funds[1] > 0
                /\ agent.valuation_or_cost # None
                /\ agent.funds[1] >= potential_price /\ potential_price > 0
             THEN Some(BidAsk(agent.agent_id, "bid", potential_price, 1,
                              snapshot.current_round))
             ELSE None
        ELSE IF agent.inventory # None /\ agent.inventory[1] > 0
                /\ agent.valuation_or_cost # None /\ potential_price > 0
             THEN Some(BidAsk(agent.agent_id, "ask", potential_price, 1,
                              snapshot.current_round))
             ELSE None

\* what the two collaborators of an LLMAgent deliver in one decision:
\*   outcome   "no_template"   prompt_manager.get_prompt returned nothing
\*             "render_error"  rendering the instructions raised
\*             "llm_error"     llm_client.generate_text raised
\*             "no_response"   generate_text returned None or ""
\*             "bad_json"      json.loads raised
\*             "json"          the text parsed to an object
\*   action    the "action" field: <<>> when absent or no string
\*   price, quantity   the raw fields: kind "missing", "number" (value in
\*             mills / units), "fraction" (a non-integral number, value in
\*             tenths of a unit) or "text" (not a number)
LLMReply(outcome, action, price, quantity) ==
    [outcome |-> outcome, action |-> action, price |-> price,
     quantity |-> quantity]

Raw(kind, value) == [kind |-> kind, value |-> value]

\* str.lower on the action strings the model uses
Lower(a) == IF a = "BID" THEN "bid" ELSE IF a = "ASK" THEN "ask"
            ELSE IF a \in {"Pass", "PASS"} THEN "pass" ELSE a

\* float(raw_price): None when it raises
ParsePrice(raw) ==
    IF raw.kind = "number" THEN Some(raw.value) ELSE None

\* int() on a number given in tenths: truncation towards zero
IntOfTenths(t) == IF t >= 0 THEN t \div 10 ELSE 0 - ((0 - t) \div 10)

\* int(raw_quantity): None when it raises; a non-integral number is truncated
ParseQuantity(raw) ==
    IF raw.kind = "number" THEN Some(raw.value)
    ELSE IF raw.kind = "fraction" THEN Some(IntOfTenths(raw.value))
    ELSE None

\* LLMAgent.decide_action, for what the collaborators deliver
LLMDecide(agent, snapshot, reply) ==
    IF reply.outcome # "json" THEN None
    ELSE IF reply.action = None THEN None
    ELSE
    LET action_type_str == Lower(reply.action[1])
        price_val == ParsePrice(reply.price)
        quantity_val == ParseQuantity(reply.quantity)
    IN  IF action_type_str = "pass" THEN None
        ELSE IF (action_type_str = "bid" /\ agent.agent_type # "buyer")
                \/ (action_type_str = "ask" /\ agent.agent_type # "seller")
        THEN None
        ELSE IF reply.price.kind = "missing" \/ price_val = None THEN None
        ELSE IF price_val[1] <= 0 THEN None
        ELSE IF reply.quantity.kind = "missing" \/ quantity_val = None THEN None
        ELSE IF quantity_val[1] <= 0 THEN None
        ELSE IF action_type_str = "bid"
        THEN IF agent.funds # None
                /\ agent.funds[1] >= price_val[1] * quantity_val[1]
             THEN Some(BidAsk(agent.agent_id, "bid", price_val[1],
                              quantity_val[1], snapshot.current_round))
             ELSE None
        ELSE IF action_type_str = "ask"
        THEN IF agent.inventory # None /\ agent.inventory[1] >= quantity_val[1]
             THEN Some(BidAsk(agent.agent_id, "ask", price_val[1],
                              quantity_val[1], snapshot.current_round))
             ELSE None
        ELSE None

\* the reply is a well-formed "pass": a JSON object whose action, read
\* without regard to letter case, is "pass"
IsPass(reply) ==
    /\ reply.outcome = "json" /\ reply.action # None
    /\ Lower(reply.action[1]) = "pass"

\* variant: an exception of llm_client.generate_text is not caught either
LLMDecideRaisesUncaught(agent, snapshot, reply) ==
    reply.outcome \in {"prompt_error", "llm_error"}

\* LLMAgent.decide_action lets an exception out: TRUE only when
\* prompt_manager.get_prompt raises, the one collaborator call outside every
\* try block ("prompt_error")
LLMDecideRaises(agent, snapshot, reply) == reply.outcome = "prompt_error"

\* the instructions template prompt_manager.get_prompt delivers:
\*   "complete"     every name it references is a key of the context
\*   "missing_key"  it references a name the context does not supply
\*   "malformed"    it is no valid template text
PromptTemplates == {"complete", "missing_key", "malformed"}

\* Template(instructions_template_str).render(context) raises: only for a
\* text that is no valid template. A name the context does not supply is
\* undefined and renders as empty text, and a name in single braces, as in
\* "Hello {non_existent_key}", is plain text that renders as itself
RenderRaises(template) == template = "malformed"

\* the template (<<>> when get_prompt delivers none or raises) and the reply
\* describe one and the same call of decide_action
Delivers(template, reply) ==
    IF reply.outcome \in {"prompt_error", "no_template"} THEN template = None
    ELSE /\ template # None
         /\ (reply.outcome = "render_error") <=> RenderRaises(template[1])

\* the number of calls of prompt_manager.get_prompt in one decide_action
GetPromptCalls(reply) == 1

\* the number of calls of llm_client.generate_text in one decide_action:
\* none when get_prompt raised or delivered nothing or rendering raised, one
\* otherwise, whatever it delivers
GenerateTextCalls(reply) ==
    IF reply.outcome \in {"prompt_error", "no_template", "render_error"}
    THEN 0 ELSE 1

\* prices an LLM reply names, in mills
LLMPrices == {1000, 1006}

\* quantities an LLM reply names
LLMQuantities == {1, 3}

\* the replies the model draws from
LLMReplies ==
    {LLMReply(o, None, Raw("missing", 0), Raw("missing", 0)) :
        o \in {"no_template", "render_error", "llm_error", "no_response",
               "bad_json"}}
    \cup {LLMReply("json", Some("pass"), Raw("missing", 0), Raw("missing", 0)),
          LLMReply("json", None, Raw("number", 1000), Raw("number", 1)),
          LLMReply("json", Some("hold"), Raw("number", 1000), Raw("number", 1)),
          LLMReply("json", Some("bid"), Raw("missing", 0), Raw("number", 1)),
          LLMReply("json", Some("ask"), Raw("text", 0), Raw("number", 1)),
          LLMReply("json", Some("bid"), Raw("number", 0), Raw("number", 1)),
          LLMReply("json", Some("ask"), Raw("number", 1000), Raw("missing", 0)),
          LLMReply("json", Some("bid"), Raw("number", 1000), Raw("text", 0)),
          LLMReply("json", Some("ask"), Raw("number", 1000), Raw("number", 0)),
          LLMReply("json", Some("BID"), Raw("number", 1000), Raw("number", 1))}
    \cup {LLMReply("json", Some(a), Raw("number", p), Raw("number", q)) :
            a \in {"bid", "ask"}, p \in LLMPrices, q \in LLMQuantities}

\* what an agent of another class may do with the snapshot it is handed
Tamper(snapshot, how) ==
    IF how = "rewind" THEN [snapshot EXCEPT !.current_round = 0]
    ELSE IF how = "wipe" THEN [snapshot EXCEPT !.transaction_log = <<>>,
                                               !.price_history = <<>>]
    ELSE snapshot

\* the decisions of an agent of another class: any order in its own name,
\* affordable or not, on either side, or no order
CustomDecisions(agent, snapshot) ==
    {None}
    \cup {Some(BidAsk(agent.agent_id, "bid", p, q, snapshot.current_round)) :
            p \in LLMPrices, q \in LLMQuantities}
    \cup {Some(BidAsk(agent.agent_id, "ask", p, 1, snapshot.current_round)) :
            p \in LLMPrices}

----------------------------------------------------------------------------
(* The simulation engine: MarketSimulation.                                *)

\* the message `LLM Agent '<id>' failed to decide an action in round <r>.`
ErrorMessage(agent_id, round) == [agent_id |-> agent_id, round |-> round]

\* variant: the agent is handed self.market_state itself, so what it writes
\* is written to the engine's state
EngineStateShared(engine_state, agent_copy) == agent_copy

\* the market state the engine holds after decide_action returned, the agent
\* having turned the object it was handed into agent_copy: the agent was
\* handed self.market_state.copy(deep=True), so its writes stay in the copy
EngineStateAfterDecide(engine_state, agent_copy) == engine_state

\* variant: only the side of the action is checked against the agent's type
AcceptsTypeOnly(agent, action) ==
    \/ (action.bid_ask_type = "bid" /\ agent.agent_type = "buyer")
    \/ (action.bid_ask_type = "ask" /\ agent.agent_type = "seller")

\* the checks of _gather_actions_from_agents on a returned action: TRUE when
\* the action is appended to `actions`
Accepts(agent, action) ==
    /\ \/ (action.bid_ask_type = "bid" /\ agent.agent_type = "buyer")
       \/ (action.bid_ask_type = "ask" /\ agent.agent_type = "seller")
    /\ ~(agent.agent_type = "buyer" /\ agent.funds # None
         /\ agent.funds[1] < action.price * action.quantity)
    /\ ~(agent.agent_type = "seller" /\ agent.inventory # None
         /\ agent.inventory[1] < action.quantity)

\* variant: every failure is recorded, the last one overwriting the others
ErrorAfterDecideLastWins(error, agent, result, round) ==
    IF result = None /\ agent.kind = "llm"
    THEN Some(ErrorMessage(agent.agent_id, round))
    ELSE error

\* llm_operational_error after an agent returned `result`
ErrorAfterDecide(error, agent, result, round) ==
    IF result = None /\ agent.kind = "llm" /\ error = None
    THEN Some(ErrorMessage(agent.agent_id, round))
    ELSE error

\* next((agent for agent in self.agents if agent.agent_id == id), None), as a
\* position in agents, 0 for None
FindAgent(ags, id) ==
    IF \E i \in DOMAIN ags : ags[i].agent_id = id
    THEN CHOOSE i \in DOMAIN ags :
            /\ ags[i].agent_id = id
            /\ \A j \in DOMAIN ags : ags[j].agent_id = id => i <= j
    ELSE 0

\* variant: only the buyer of the transaction is updated
ApplyTransactionBuyerOnly(ags, tx) ==
    LET b == FindAgent(ags, tx.buyer_id)
    IN  IF b = 0 THEN ags
        ELSE [ags EXCEPT ![b] = UpdateStateAfterTransaction(
                                    @, tx.price, tx.quantity, TRUE)]

\* the body of the loop of _update_agent_states for one transaction
ApplyTransaction(ags, tx) ==
    LET b == FindAgent(ags, tx.buyer_id)
        afterBuyer == IF b = 0 THEN ags
                      ELSE [ags EXCEPT ![b] = UpdateStateAfterTransaction(
                                                @, tx.price, tx.quantity, TRUE)]
        s == FindAgent(ags, tx.seller_id)
    IN  IF s = 0 THEN afterBuyer
        ELSE [afterBuyer EXCEPT ![s] = UpdateStateAfterTransaction(
                                            @, tx.price, tx.quantity, FALSE)]

\* MarketSimulation._update_agent_states
RECURSIVE UpdateAgentStates(_, _)
UpdateAgentStates(ags, transactions) ==
    IF transactions = <<>> THEN ags
    ELSE UpdateAgentStates(ApplyTransaction(ags, Head(transactions)),
                           Tail(transactions))

\* variant: the volume counts the transactions, not their quantities
PriceHistoryEntryCount(round, transactions) ==
    LET volume == SeqSum([k \in DOMAIN transactions |-> transactions[k].quantity])
        turnover == SeqSum([k \in DOMAIN transactions |->
                        transactions[k].price * transactions[k].quantity])
    IN  [round |-> round, average_price |-> Round2(turnover, volume),
         volume |-> Len(transactions), num_transactions |-> Len(transactions)]

\* the price_history entry of a round with transactions
PriceHistoryEntry(round, transactions) ==
    LET volume == SeqSum([k \in DOMAIN transactions |-> transactions[k].quantity])
        turnover == SeqSum([k \in DOMAIN transactions |->
                        transactions[k].price * transactions[k].quantity])
    IN  [round |-> round, average_price |-> Round2(turnover, volume),
         volume |-> volume, num_transactions |-> Len(transactions)]

\* variant: the round's transactions are put in front of the log
MarketStateAfterRoundPrepend(ms, all_actions) ==
    LET current_bids == SelectSeq(all_actions, LAMBDA a : a.bid_ask_type = "bid")
        current_asks == SelectSeq(all_actions, LAMBDA a : a.bid_ask_type = "ask")
        m == MatchOrdersSimpleCDA(current_bids, current_asks, ms.current_round)
    IN  MarketState(ms.current_round, m.bids, m.asks,
            IF m.transactions # <<>>
            THEN Append(ms.price_history,
                        PriceHistoryEntry(ms.current_round, m.transactions))
            ELSE ms.price_history,
            m.transactions \o ms.transaction_log)

\* self.market_state after the steps of run_round that follow the gathering:
\* bids and asks set, orders matched, the log and price history extended
MarketStateAfterRound(ms, all_actions) ==
    LET current_bids == SelectSeq(all_actions, LAMBDA a : a.bid_ask_type = "bid")
        current_asks == SelectSeq(all_actions, LAMBDA a : a.bid_ask_type = "ask")
        m == MatchOrdersSimpleCDA(current_bids, current_asks, ms.current_round)
    IN  MarketState(ms.current_round, m.bids, m.asks,
            IF m.transactions # <<>>
            THEN Append(ms.price_history,
                        PriceHistoryEntry(ms.current_round, m.transactions))
            ELSE ms.price_history,
            ms.transaction_log \o m.transactions)

\* transactions_this_round of run_round
TransactionsOfRound(ms, all_actions) ==
    MatchOrdersSimpleCDA(
        SelectSeq(all_actions, LAMBDA a : a.bid_ask_type = "bid"),
        SelectSeq(all_actions, LAMBDA a : a.bid_ask_type = "ask"),
        ms.current_round).transactions

\* variant: the positions are drawn with replacement
ShufflesWithReplacement(n) == [1..n -> 1..n]

\* random.sample(self.agents, len(self.agents)): every order of the positions
Shuffles(n) ==
    {p \in [1..n -> 1..n] : \A i, j \in 1..n : p[i] = p[j] => i = j}

\* variant: the guard stops the loop one round early
TargetReachedOneEarly(ms, n) == ms.current_round >= n - 1

\* variant: the guard compares with > instead of >=
TargetReachedStrict(ms, n) == ms.current_round > n

\* the guard `self.market_state.current_round >= self.num_rounds` of the loop
\* of run_simulation
TargetReached(ms, n) == ms.current_round >= n

\* llm_operational_error as run_simulation sets it on entry
ErrorOnEntry(error) == None

\* ---- display aggregation: process_simulation_results_for_display --------

\* the dict `results`
DisplayResults(rounds, average_prices, volumes, num_transactions_per_round, all_transactions) ==
    [rounds |-> rounds, average_prices |-> average_prices,
     volumes |-> volumes,
     num_transactions_per_round |-> num_transactions_per_round,
     all_transactions |-> all_transactions]

\* next((ph for ph in reversed(state.price_history)
\*       if ph["round"] == state.current_round), None)
PriceInfoForRound(state) ==
    LET hits == {k \in DOMAIN state.price_history :
                    state.price_history[k].round = state.current_round}
    IN  IF hits = {} THEN None
        ELSE Some(state.price_history[CHOOSE k \in hits :
                                        \A l \in hits : l <= k])

\* variant: nothing is carried forward
LastAvgPriceNone(average_prices) == None

\* last_avg_price: results["average_prices"][-1] if the list is not empty,
\* else None
LastAvgPrice(average_prices) ==
    IF average_prices # <<>> THEN average_prices[Len(average_prices)]
    ELSE None

\* one pass of the loop `for state in simulation_history`; average prices
\* are kept as None or Some(price)
DisplayStep(results, state) ==
    LET info == PriceInfoForRound(state)
        own == SelectSeq(state.transaction_log,
                         LAMBDA tx : tx.round = state.current_round)
    IN  DisplayResults(
            Append(results.rounds, state.current_round),
            Append(results.average_prices,
                   IF info # None THEN Some(info[1].average_price)
                   ELSE LastAvgPrice(results.average_prices)),
            Append(results.volumes,
                   IF info # None THEN info[1].volume ELSE 0),
            Append(results.num_transactions_per_round,
                   IF info # None THEN info[1].num_transactions ELSE 0),
            results.all_transactions \o
                [k \in DOMAIN own |->
                    [round |-> own[k].round, buyer_id |-> own[k].buyer_id,
                     seller_id |-> own[k].seller_id, price |-> own[k].price,
                     quantity |-> own[k].quantity]])

\* the loop over the first n snapshots
RECURSIVE DisplayLoop(_, _)
DisplayLoop(history, n) ==
    IF n = 0 THEN DisplayResults(<<>>, <<>>, <<>>, <<>>, <<>>)
    ELSE DisplayStep(DisplayLoop(history, n - 1), history[n])

\* the padding of one series to max_len = len(results["rounds"])
Padded(series, max_len, key) ==
    IF Len(series) >= max_len THEN series
    ELSE series \o [k \in 1..(max_len - Len(series)) |->
            IF key = "average_prices"
            THEN (IF series # <<>> THEN series[Len(series)] ELSE None)
            ELSE 0]

\* process_simulation_results_for_display
ProcessSimulationResultsForDisplay(history) ==
    LET results == DisplayLoop(history, Len(history))
        max_len == Len(results.rounds)
    IN  IF history = <<>> THEN results
        ELSE DisplayResults(results.rounds,
                Padded(results.average_prices, max_len, "average_prices"),
                Padded(results.volumes, max_len, "volumes"),
                Padded(results.num_transactions_per_round, max_len,
                       "num_transactions_per_round"),
                results.all_transactions)

\* ---- construction -------------------------------------------------------

\* setup_simulation_agents(1, ..., 1, ..., "rule_based")
RuleRoster ==
    <<NewAgent(AgentConfig("buyer_1", "buyer", Some(2000), None, None,
                           Some(1200)), "rule_based"),
      NewAgent(AgentConfig("seller_1", "seller", None, Some(2), None,
                           Some(1000)), "rule_based")>>

\* setup_simulation_agents(1, ..., 1, ..., "llm")
LLMRoster ==
    <<NewAgent(AgentConfig("buyer_1", "buyer", Some(3020), None, Some("buyer_default"),
                           Some(1200)), "llm"),
      NewAgent(AgentConfig("seller_1", "seller", None, Some(3), Some("seller_default"),
                           Some(1000)), "llm")>>

\* MarketSimulation(agents=[...]) on a list that holds an agent of another
\* subclass of Agent next to an LLMAgent
MixedRoster ==
    <<NewAgent(AgentConfig("buyer_1", "buyer", Some(2000), None, None,
                           Some(1200)), "custom"),
      NewAgent(AgentConfig("seller_1", "seller", None, Some(1), Some("seller_default"),
                           Some(1000)), "llm")>>

\* MarketSimulation(agents=[...]) on two RuleBasedAgent buyers that can each
\* afford one unit and an LLMAgent
\* seller that can supply both
TwoBuyerRoster ==
    <<NewAgent(AgentConfig("buyer_1", "buyer", Some(1200), None, None,
                           Some(1200)), "rule_based"),
      NewAgent(AgentConfig("buyer_2", "buyer", Some(1200), None, None,
                           Some(1200)), "rule_based"),
      NewAgent(AgentConfig("seller_1", "seller", None, Some(3), Some("seller_default"),
                           Some(1000)), "llm")>>

Rosters == {RuleRoster, LLMRoster, MixedRoster, TwoBuyerRoster}

\* the matching variables, at rest while the engine runs
MatchAtRest ==
    /\ match = MatchOrdersSimpleCDA(<<>>, <<>>, 0)
    /\ match_input = [bids |-> <<>>, asks |-> <<>>]

\* no call of run_marketplace_simulation is modelled
SetupAtRest == setup = None

\* no separate call of decide_action is modelled
DecisionAtRest == decision = None

\* MarketSimulation.__init__
Init ==
    /\ agents \in Rosters
    /\ num_rounds \in 0..MaxRounds
    /\ market_state = MarketState(0, <<>>, <<>>, <<>>, <<>>)
    /\ simulation_history = <<>>
    /\ llm_operational_error = None
    /\ pc = "idle"
    /\ loop_i = 0
    /\ shuffled_agents = <<>>
    /\ actions = <<>>
    /\ returned = None
    /\ poll_log = <<>>
    /\ failures = <<>>
    /\ MatchAtRest
    /\ SetupAtRest
    /\ DecisionAtRest
    /\ display = None

\* ---- run_simulation ----------------------------------------------------

\* run_simulation is called: the error is reset, the loop is entered
RunSimulation ==
    /\ pc = "idle"
    /\ llm_operational_error' = ErrorOnEntry(llm_operational_error)
    /\ loop_i' = 0
    /\ failures' = <<>>
    /\ pc' = "loop"
    /\ UNCHANGED <<agents, num_rounds, market_state, simulation_history,
                   shuffled_agents, actions, returned, poll_log, match,
                   match_input, aux_vars>>

\* the loop goes on: run_round begins (the counter is incremented, the agents
\* are shuffled)
RunRoundBegin ==
    /\ pc = "loop"
    /\ loop_i < num_rounds
    /\ ~TargetReached(market_state, num_rounds)
    /\ loop_i' = loop_i + 1
    /\ market_state' = [market_state EXCEPT !.current_round = @ + 1]
    /\ \E p \in Shuffles(Len(agents)) : shuffled_agents' = p
    /\ actions' = <<>>
    /\ poll_log' = <<>>
    /\ pc' = "gather"
    /\ UNCHANGED <<agents, num_rounds, simulation_history,
                   llm_operational_error, returned, failures, match,
                   match_input, aux_vars>>

\* one pass of the loop of _gather_actions_from_agents, the agent having
\* returned `result` and left the object it was handed as `agent_copy`;
\* `passed` says that the agent chose to pass
Polled(i, result, agent_copy, passed) ==
    /\ poll_log' = Append(poll_log,
            [round |-> Len(simulation_history) + 1, agent |-> i,
             snapshot |-> market_state, left_as |-> agent_copy,
             result |-> result, passed |-> passed])
    /\ failures' = IF result = None /\ agents[i].kind = "llm"
                   THEN Append(failures,
                            [agent_id |-> agents[i].agent_id,
                             round |-> Len(simulation_history) + 1])
                   ELSE failures
    /\ market_state' = EngineStateAfterDecide(market_state, agent_copy)
    /\ actions' = IF result # None /\ Accepts(agents[i], result[1])
                  THEN Append(actions, result[1]) ELSE actions
    /\ llm_operational_error' = ErrorAfterDecide(llm_operational_error,
            agents[i], result, market_state.current_round)
    /\ shuffled_agents' = Tail(shuffled_agents)
    /\ UNCHANGED <<agents, num_rounds, simulation_history, pc, loop_i,
                   returned, match, match_input, aux_vars>>

\* the next agent is a RuleBasedAgent
DecideRuleBased ==
    /\ pc = "gather" /\ shuffled_agents # <<>>
    /\ LET i == Head(shuffled_agents)
       IN  /\ agents[i].kind = "rule_based"
           /\ \E u \in IF agents[i].agent_type = "buyer" THEN RuleBuyerDraws
                       ELSE RuleSellerDraws :
                Polled(i, RuleBasedDecide(agents[i], market_state, u),
                       market_state, FALSE)

\* the next agent is an LLMAgent
DecideLLM ==
    /\ pc = "gather" /\ shuffled_agents # <<>>
    /\ LET i == Head(shuffled_agents)
       IN  /\ agents[i].kind = "llm"
           /\ \E reply \in LLMReplies :
                Polled(i, LLMDecide(agents[i], market_state, reply),
                       market_state, IsPass(reply))

\* the next agent is of another subclass of Agent
DecideCustom ==
    /\ pc = "gather" /\ shuffled_agents # <<>>
    /\ LET i == Head(shuffled_agents)
       IN  /\ agents[i].kind = "custom"
           /\ \E result \in CustomDecisions(agents[i], market_state),
                 how \in {"keep", "rewind", "wipe"} :
                Polled(i, result, Tamper(market_state, how), FALSE)

\* the rest of run_round, once every agent was polled
RunRoundFinish ==
    /\ pc = "gather" /\ shuffled_agents = <<>>
    /\ market_state' = MarketStateAfterRound(market_state, actions)
    /\ agents' = UpdateAgentStates(agents,
                    TransactionsOfRound(market_state, actions))
    /\ simulation_history' = Append(simulation_history, market_state')
    /\ pc' = IF loop_i = 0 THEN "idle" ELSE "loop"
    /\ UNCHANGED <<num_rounds, llm_operational_error, loop_i, shuffled_agents,
                   actions, returned, poll_log, failures, match,
                   match_input, aux_vars>>

\* the loop is left (exhausted, or the target reached): run_simulation returns
RunSimulationReturn ==
    /\ pc = "loop"
    /\ (loop_i >= num_rounds \/ TargetReached(market_state, num_rounds))
    /\ returned' = Some([history |-> simulation_history,
                         error |-> llm_operational_error])
    /\ pc' = "idle"
    /\ UNCHANGED <<agents, num_rounds, market_state, simulation_history,
                   llm_operational_error, loop_i, shuffled_agents, actions,
                   poll_log, failures, match, match_input, aux_vars>>

\* the history run_simulation returned is aggregated for display; the
\* function reads the history and writes only its own `results`
ProcessResults ==
    /\ pc = "idle" /\ returned # None
    /\ display' = Some(ProcessSimulationResultsForDisplay(returned[1].history))
    /\ UNCHANGED <<engine_vars, match, match_input, setup, decision>>

Next ==
    \/ ProcessResults
    \/ RunSimulation
    \/ RunRoundBegin
    \/ DecideRuleBased
    \/ DecideLLM
    \/ DecideCustom
    \/ RunRoundFinish
    \/ RunSimulationReturn

Spec == Init /\ [][Next]_vars

\* ---- run_round and run_simulation as called from outside ----------------

\* run_round is called directly, not from the loop of run_simulation: the
\* counter is incremented and the agents are shuffled, whatever num_rounds
\* is. The model lets the counter pass MaxRounds by one and no further.
RunRoundCalled ==
    /\ pc = "idle"
    /\ market_state.current_round <= MaxRounds
    /\ loop_i' = 0
    /\ market_state' = [market_state EXCEPT !.current_round = @ + 1]
    /\ \E p \in Shuffles(Len(agents)) : shuffled_agents' = p
    /\ actions' = <<>>
    /\ poll_log' = <<>>
    /\ pc' = "gather"
    /\ UNCHANGED <<agents, num_rounds, simulation_history,
                   llm_operational_error, returned, failures, match,
                   match_input, aux_vars>>

\* MarketSimulation(agents, num_rounds) on two rule-based agents
InitPublic == Init /\ agents = RuleRoster

NextPublic ==
    \/ RunRoundCalled
    \/ RunSimulation
    \/ RunRoundBegin
    \/ DecideRuleBased
    \/ RunRoundFinish
    \/ RunSimulationReturn

SpecPublic == InitPublic /\ [][NextPublic]_vars

----------------------------------------------------------------------------
(* The matching engine on its own: a call of _match_orders_simple_CDA on   *)
(* lists of orders drawn from bounded sets, as the unit tests call it.     *)

\* agent ids of the orders of a bid list, by position
MatchBidIds == <<"b1", "b2">>

\* agent ids of the orders of an ask list, by position
MatchAskIds == <<"s1", "s2">>

\* bid prices, in mills
MatchBidPrices == {95000, 100000, 105000, 100006}

\* ask prices, in mills
MatchAskPrices == {90000, 95000, 110000, 100006}

\* the round the test sets on the market state and on the orders
MatchRound == 1

\* the prices and quantities of all lists of at most Len(ids) orders
OrderLists(ids, prices) ==
    UNION {[1..n -> [price : prices, quantity : 1..MaxQty]] : n \in 0..Len(ids)}

\* the list of BidAsk objects for a choice of prices and quantities
MakeOrders(ids, side, choice) ==
    [i \in DOMAIN choice |->
        BidAsk(ids[i], side, choice[i].price, choice[i].quantity, MatchRound)]

\* the engine side of the state, at rest while the matching engine is exercised
EngineAtRest ==
    /\ agents = <<>>
    /\ num_rounds = 1
    /\ market_state = MarketState(MatchRound, <<>>, <<>>, <<>>, <<>>)
    /\ simulation_history = <<>>
    /\ llm_operational_error = None
    /\ pc = "idle"
    /\ loop_i = 0
    /\ shuffled_agents = <<>>
    /\ actions = <<>>
    /\ returned = None
    /\ poll_log = <<>>
    /\ failures = <<>>

InitMatch ==
    /\ EngineAtRest
    /\ SetupAtRest
    /\ DecisionAtRest
    /\ display = None
    /\ \E bc \in OrderLists(MatchBidIds, MatchBidPrices),
          ac \in OrderLists(MatchAskIds, MatchAskPrices) :
          LET bids == MakeOrders(MatchBidIds, "bid", bc)
              asks == MakeOrders(MatchAskIds, "ask", ac)
          IN  /\ match_input = [bids |-> bids, asks |-> asks]
              /\ match = MatchStart(bids, asks, market_state.current_round)

\* one pass through the while loop of _match_orders_simple_CDA
MatchLoop ==
    /\ match.running
    /\ match' = MatchIter(match)
    /\ UNCHANGED <<match_input, engine_vars, aux_vars>>

NextMatch == MatchLoop

SpecMatch == InitMatch /\ [][NextMatch]_vars

\* the prices of the orders the matching is called on when its termination
\* is at issue: bids and asks that cross and that do not
FairBidPrices == {95000, 105000}

FairAskPrices == {90000, 110000}

InitMatchFair ==
    /\ EngineAtRest
    /\ SetupAtRest
    /\ DecisionAtRest
    /\ display = None
    /\ \E bc \in OrderLists(MatchBidIds, FairBidPrices),
          ac \in OrderLists(MatchAskIds, FairAskPrices) :
          LET bids == MakeOrders(MatchBidIds, "bid", bc)
              asks == MakeOrders(MatchAskIds, "ask", ac)
          IN  /\ match_input = [bids |-> bids, asks |-> asks]
              /\ match = MatchStart(bids, asks, market_state.current_round)

\* the call is not suspended: the interpreter goes on to the next pass of
\* the loop as long as there is one
SpecMatchFair == InitMatchFair /\ [][NextMatch]_vars /\ WF_vars(NextMatch)

----------------------------------------------------------------------------
(* Setup: run_marketplace_simulation and setup_simulation_agents of        *)
(* modules/marketplace/logic.py, with the constructors of AgentConfig,     *)
(* RuleBasedAgent and LLMAgent, up to the construction of the simulation.  *)

\* largest num_buyers and largest num_sellers of a setup
MaxAgents == 2

\* a key of a config template (a dict): absent, or present with a value
Absent == [present |-> FALSE, value |-> None]

Present(v) == [present |-> TRUE, value |-> v]

\* buyer_config_template / seller_config_template; the first four fields are
\* None when the key is absent (the AgentConfig default) or maps to None
ConfigTemplate(initial_funds, initial_inventory, valuation_or_cost, valuation_or_cost_range, llm_persona_prompt_key) ==
    [initial_funds |-> initial_funds, initial_inventory |-> initial_inventory,
     valuation_or_cost |-> valuation_or_cost,
     valuation_or_cost_range |-> valuation_or_cost_range,
     llm_persona_prompt_key |-> llm_persona_prompt_key]

\* the outcome of a constructor call: an exception or an object
Raised(error) == [raised |-> Some(error), agent |-> None]

Built(agent) == [raised |-> None, agent |-> Some(agent)]

\* the validation of AgentConfig(**d): the constraints ge=0 of initial_funds
\* and initial_inventory; there is no other validator
ConfigValid(config) ==
    /\ config.initial_funds # None => config.initial_funds[1] >= 0
    /\ config.initial_inventory # None => config.initial_inventory[1] >= 0

\* variant: a config without valuation_or_cost is let through
RuleBasedAgentInitLax(config) == Built(NewAgent(config, "rule_based"))

\* RuleBasedAgent.__init__
RuleBasedAgentInit(config) ==
    IF config.valuation_or_cost = None
    THEN Raised("RuleBasedAgent requires valuation_or_cost in its config.")
    ELSE Built(NewAgent(config, "rule_based"))

\* LLMAgent.__init__ ; `not config.llm_persona_prompt_key` holds for None
\* and for the empty string
LLMAgentInit(config) ==
    IF config.llm_persona_prompt_key = None
       \/ config.llm_persona_prompt_key = Some("")
    THEN Raised("LLMAgent requires llm_persona_prompt_key in its config.")
    ELSE Built(NewAgent(config, "llm"))

\* round(random.uniform(min_val, max_val), 2): the draws the model takes
RangeDraws(template) ==
    IF template.valuation_or_cost_range = None THEN {0}
    ELSE {template.valuation_or_cost_range[1][1],
          template.valuation_or_cost_range[1][2]}

\* one pass of a loop of setup_simulation_agents: the constructor calls made
\* for one agent, as a record of the config last built, the class asked for
\* and the outcome
SetupOne(template, agent_id, side, agent_type, llm_ready, draw) ==
    LET valuation == IF template.valuation_or_cost_range # None
                     THEN Some(draw) ELSE template.valuation_or_cost
        config == AgentConfig(agent_id, side, template.initial_funds,
                      template.initial_inventory,
                      template.llm_persona_prompt_key.value, valuation)
        key == IF template.llm_persona_prompt_key.present
               THEN template.llm_persona_prompt_key.value
               ELSE Some(side \o "_default")
        config_llm == [config EXCEPT !.llm_persona_prompt_key = key]
        Call(c, kind, outcome) ==
            [config |-> c, kind |-> kind, outcome |-> outcome]
    IN  IF ~ConfigValid(config)
        THEN Call(config, "AgentConfig", Raised("ValidationError"))
        ELSE IF agent_type = "rule_based"
        THEN Call(config, "rule_based", RuleBasedAgentInit(config))
        ELSE IF agent_type = "llm"
        THEN IF ~llm_ready
             THEN Call(config, "none", Raised(
                "LLMClient and PromptManager instances are required for LLMAgents."))
             ELSE Call(config_llm, "llm", LLMAgentInit(config_llm))
        ELSE Call(config, "none", Raised("Unsupported agent type"))

\* the config templates a setup is called with
BuyerTemplates ==
    {ConfigTemplate(f, None, v, r, k) :
        f \in {None, Some(0 - 1000), Some(2000)},
        v \in {None, Some(1200)},
        r \in {None, Some(<<1000, 1200>>)},
        k \in {Absent, Present(None), Present(Some("")),
               Present(Some("buyer_default"))}}

SellerTemplates ==
    {ConfigTemplate(None, i, v, r, k) :
        i \in {None, Some(0 - 1), Some(2)},
        v \in {None, Some(1000)},
        r \in {None, Some(<<800, 1000>>)},
        k \in {Absent, Present(None), Present(Some("")),
               Present(Some("seller_default"))}}

\* the values of the parameter agent_type / agent_creation_type
AgentTypes == {"rule_based", "llm", "custom"}

\* no MarketSimulation has been constructed
NoSimulation ==
    /\ agents = <<>>
    /\ num_rounds = 0
    /\ market_state = MarketState(0, <<>>, <<>>, <<>>, <<>>)
    /\ simulation_history = <<>>
    /\ llm_operational_error = None
    /\ pc = "idle"
    /\ loop_i = 0
    /\ shuffled_agents = <<>>
    /\ actions = <<>>
    /\ returned = None
    /\ poll_log = <<>>
    /\ failures = <<>>

\* run_marketplace_simulation is called
InitSetup ==
    /\ NoSimulation
    /\ MatchAtRest
    /\ DecisionAtRest
    /\ display = None
    /\ \E nb \in 0..MaxAgents, ns \in 0..MaxAgents,
          bt \in BuyerTemplates, st \in SellerTemplates,
          t \in AgentTypes, ready \in BOOLEAN :
        /\ ready => t = "llm"
        /\ setup = Some([num_buyers |-> nb, num_sellers |-> ns,
                         buyer_config_template |-> bt,
                         seller_config_template |-> st,
                         agent_type |-> t, llm_ready |-> ready,
                         num_rounds |-> 1,
                         stage |-> "building", agents |-> <<>>,
                         raised |-> None, last |-> None])

\* the n-th agent id of a side: f"buyer_{i+1}", f"seller_{i+1}"
AgentId(side, n) ==
    side \o "_" \o (IF n = 1 THEN "1" ELSE IF n = 2 THEN "2"
                    ELSE IF n = 3 THEN "3" ELSE "4")

\* the effect of one pass of a loop on the call: the agent is appended, or
\* the exception leaves setup_simulation_agents and run_marketplace_simulation
SetupStep(call) ==
    setup' = Some([setup[1] EXCEPT
        !.last = Some(call),
        !.agents = IF call.outcome.raised = None
                   THEN Append(@, call.outcome.agent[1]) ELSE @,
        !.raised = call.outcome.raised,
        !.stage = IF call.outcome.raised = None THEN @ ELSE "raised"])

\* one pass of the loop `for i in range(num_buyers)`
SetupBuyer ==
    /\ setup # None /\ setup[1].stage = "building"
    /\ Len(setup[1].agents) < setup[1].num_buyers
    /\ \E draw \in RangeDraws(setup[1].buyer_config_template) :
        SetupStep(SetupOne(setup[1].buyer_config_template,
            AgentId("buyer", Len(setup[1].agents) + 1), "buyer",
            setup[1].agent_type, setup[1].llm_ready, draw))
    /\ UNCHANGED <<engine_vars, match, match_input, decision, display>>

\* one pass of the loop `for i in range(num_sellers)`
SetupSeller ==
    /\ setup # None /\ setup[1].stage = "building"
    /\ Len(setup[1].agents) >= setup[1].num_buyers
    /\ Len(setup[1].agents) < setup[1].num_buyers + setup[1].num_sellers
    /\ \E draw \in RangeDraws(setup[1].seller_config_template) :
        SetupStep(SetupOne(setup[1].seller_config_template,
            AgentId("seller",
                    Len(setup[1].agents) - setup[1].num_buyers + 1), "seller",
            setup[1].agent_type, setup[1].llm_ready, draw))
    /\ UNCHANGED <<engine_vars, match, match_input, decision, display>>

\* both loops are exhausted: setup_simulation_agents returns `agents`
SetupReturn ==
    /\ setup # None /\ setup[1].stage = "building"
    /\ Len(setup[1].agents) = setup[1].num_buyers + setup[1].num_sellers
    /\ setup' = Some([setup[1] EXCEPT !.stage = "returned"])
    /\ UNCHANGED <<engine_vars, match, match_input, decision, display>>

\* simulation = MarketSimulation(agents=agents, num_rounds=num_rounds)
CreateSimulation ==
    /\ setup # None /\ setup[1].stage = "returned"
    /\ setup' = Some([setup[1] EXCEPT !.stage = "simulation"])
    /\ agents' = setup[1].agents
    /\ num_rounds' = setup[1].num_rounds
    /\ UNCHANGED <<market_state, simulation_history, llm_operational_error,
                   pc, loop_i, shuffled_agents, actions, returned, poll_log,
                   failures, match, match_input, decision, display>>

NextSetup ==
    \/ SetupBuyer
    \/ SetupSeller
    \/ SetupReturn
    \/ CreateSimulation

SpecSetup == InitSetup /\ [][NextSetup]_vars

----------------------------------------------------------------------------
(* decide_action on its own: one call on an agent and a market state drawn *)
(* from bounded sets, as the unit tests of the agents call it.             *)

\* a RuleBasedAgent / LLMAgent in a given state
AgentInState(agent_id, agent_type, kind, funds, inventory, valuation_or_cost) ==
    [agent_id |-> agent_id, agent_type |-> agent_type, kind |-> kind,
     funds |-> funds, inventory |-> inventory,
     valuation_or_cost |-> valuation_or_cost]

\* the agents a decision is asked of; money in mills
DecideAgents ==
    {AgentInState("buyer_1", "buyer", "rule_based", f, Some(0), Some(v)) :
        f \in {None, Some(0), Some(10000), Some(90000), Some(200000)},
        v \in {0, 1200, 100000}}
    \cup {AgentInState("seller_1", "seller", "rule_based", Some(0), i, Some(c)) :
        i \in {None, Some(0), Some(2)}, c \in {0, 100000}}
    \cup {AgentInState("buyer_1", "buyer", "llm", f, Some(0), Some(1200)) :
        f \in {None, Some(0), Some(3020)}}
    \cup {AgentInState("seller_1", "seller", "llm", Some(0), i, Some(1000)) :
        i \in {None, Some(0), Some(1), Some(3)}}

\* the draws of random.uniform(0.80, 0.95) taken here, in thousandths
DecideBuyerDraws == {800, 900, 950}

\* the replies an LLMAgent is given here: those of LLMReplies, and
\*   get_prompt raising; a JSON text that is no object; the actions in other
\*   letter cases; a negative price; quantities 1.5, 0.5 and -1
DecideReplies ==
    LLMReplies
    \cup {LLMReply(o, None, Raw("missing", 0), Raw("missing", 0)) :
            o \in {"prompt_error", "json_not_object"}}
    \cup {LLMReply("json", Some(a), Raw("number", 1000), Raw("number", 1)) :
            a \in {"ASK", "PASS", "Pass"}}
    \cup {LLMReply("json", Some("PASS"), Raw("missing", 0), Raw("missing", 0)),
          LLMReply("json", Some("bid"), Raw("number", 0 - 1000), Raw("number", 1)),
          LLMReply("json", Some("bid"), Raw("number", 1000), Raw("number", 0 - 1)),
          LLMReply("json", Some("bid"), Raw("missing", 0), Raw("missing", 0))}
    \cup {LLMReply("json", Some(a), Raw("number", 1000), Raw("fraction", t)) :
            a \in {"bid", "ask"}, t \in {15, 5}}

\* decide_action is about to be called
InitDecide ==
    /\ NoSimulation
    /\ MatchAtRest
    /\ SetupAtRest
    /\ display = None
    /\ \E agent \in DecideAgents, r \in 1..MaxRounds :
        decision = Some([agent |-> agent,
                         market_state |-> MarketState(r, <<>>, <<>>, <<>>, <<>>),
                         called |-> FALSE, input |-> None, result |-> None,
                         raised |-> FALSE, agent_after |-> agent,
                         template |-> None, get_prompt_calls |-> 0,
                         generate_text_calls |-> 0])

\* the call returns `result`, or an exception leaves it; decide_action
\* assigns to no attribute of the agent. `template` is what get_prompt
\* delivered, `prompts` and `generations` count the calls of the two
\* collaborators
Decided(input, result, raised, template, prompts, generations) ==
    /\ decision' = Some([decision[1] EXCEPT
                            !.called = TRUE, !.input = Some(input),
                            !.result = IF raised THEN None ELSE result,
                            !.raised = raised,
                            !.agent_after = decision[1].agent,
                            !.template = template,
                            !.get_prompt_calls = prompts,
                            !.generate_text_calls = generations])
    /\ UNCHANGED <<engine_vars, match, match_input, setup, display>>

\* RuleBasedAgent.decide_action is called
DecideActionRuleBased ==
    /\ decision # None /\ ~decision[1].called
    /\ decision[1].agent.kind = "rule_based"
    /\ \E u \in IF decision[1].agent.agent_type = "buyer"
                THEN DecideBuyerDraws ELSE RuleSellerDraws :
        Decided(u, RuleBasedDecide(decision[1].agent,
                                   decision[1].market_state, u), FALSE,
                None, 0, 0)

\* LLMAgent.decide_action is called
DecideActionLLM ==
    /\ decision # None /\ ~decision[1].called
    /\ decision[1].agent.kind = "llm"
    /\ \E reply \in DecideReplies,
          template \in {None} \cup {Some(t) : t \in PromptTemplates} :
        /\ Delivers(template, reply)
        /\ Decided(reply,
                   LLMDecide(decision[1].agent, decision[1].market_state,
                             reply),
                   LLMDecideRaises(decision[1].agent,
                                   decision[1].market_state, reply),
                   template, GetPromptCalls(reply), GenerateTextCalls(reply))

NextDecide ==
    \/ DecideActionRuleBased
    \/ DecideActionLLM

SpecDecide == InitDecide /\ [][NextDecide]_vars

----------------------------------------------------------------------------
(* Properties of the matching engine (SpecMatch).                          *)

MatchDone == ~match.running

C4_Bids ==
    <<BidAsk("b1", "bid", 105000, 2, 1), BidAsk("b2", "bid", 100000, 3, 1)>>

C4_Asks ==
    <<BidAsk("s1", "ask", 90000, 1, 1), BidAsk("s2", "ask", 95000, 4, 1)>>

C4_Expected ==
    <<Transaction("b1", "s1", 97500, 1, 1),
      Transaction("b1", "s2", 100000, 1, 1),
      Transaction("b2", "s2", 97500, 3, 1)>>

NoCrossingPair ==
    \A i \in DOMAIN match_input.bids, j \in DOMAIN match_input.asks :
        match_input.bids[i].price < match_input.asks[j].price

\* C5: every transaction the matching emits pairs a bid and an ask of the
\* input with bid price >= ask price; when max(bid price) < min(ask price),
\* or a side is empty, no transaction is emitted and no order quantity changes.
C5_NoMatchWithoutCrossing ==
    /\ \A k \in DOMAIN match.transactions :
         \E i \in DOMAIN match_input.bids, j \in DOMAIN match_input.asks :
            /\ match_input.bids[i].agent_id = match.transactions[k].buyer_id
            /\ match_input.asks[j].agent_id = match.transactions[k].seller_id
            /\ match_input.bids[i].price >= match_input.asks[j].price
    /\ NoCrossingPair =>
         /\ match.transactions = <<>>
         /\ match.bids = match_input.bids
         /\ match.asks = match_input.asks

C5_Witness ==
    /\ MatchDone
    /\ Len(match_input.bids) = 2 /\ Len(match_input.asks) = 2
    /\ NoCrossingPair
    /\ match.transactions = <<>>

\* the quantity the transactions txs fill of the order of agent id
Fills(id, txs) ==
    SeqSum([k \in DOMAIN txs |->
        IF txs[k].buyer_id = id \/ txs[k].seller_id = id
        THEN txs[k].quantity ELSE 0])

\* p is the arithmetic mean of the two prices rounded to 2 decimals: a whole
\* number of cents (10 mills) at most half a cent from the mean
MeanToCents(p, bid_price, ask_price) ==
    /\ p % 10 = 0
    /\ 2 * p - (bid_price + ask_price) <= 10
    /\ (bid_price + ask_price) - 2 * p <= 10

\* a step of the matching that trades: one transaction is appended, between
\* the bid and the ask under the cursors, for the smaller of their remaining
\* quantities at the rounded mean of their prices, and both are decremented
\* by that quantity, no other order being touched
C18_Step ==
    (match'.transactions # match.transactions) =>
        LET bi == match.sorted_bids[match.bid_idx]
            ai == match.sorted_asks[match.ask_idx]
            bid == match.bids[bi]
            ask == match.asks[ai]
            tx == match'.transactions[Len(match'.transactions)]
        IN  /\ match'.transactions = Append(match.transactions, tx)
            /\ tx.buyer_id = bid.agent_id /\ tx.seller_id = ask.agent_id
            /\ tx.quantity <= bid.quantity /\ tx.quantity <= ask.quantity
            /\ tx.quantity \in {bid.quantity, ask.quantity}
            /\ tx.quantity > 0
            /\ MeanToCents(tx.price, bid.price, ask.price)
            /\ match'.bids = [match.bids EXCEPT
                                ![bi].quantity = bid.quantity - tx.quantity]
            /\ match'.asks = [match.asks EXCEPT
                                ![ai].quantity = ask.quantity - tx.quantity]

\* every order's remaining quantity is its submitted quantity less its fills,
\* and is not negative
C18_Remaining ==
    /\ \A i \in DOMAIN match.bids :
        /\ match.bids[i].quantity = match_input.bids[i].quantity
                - Fills(match_input.bids[i].agent_id, match.transactions)
        /\ match.bids[i].quantity >= 0
    /\ \A j \in DOMAIN match.asks :
        /\ match.asks[j].quantity = match_input.asks[j].quantity
                - Fills(match_input.asks[j].agent_id, match.transactions)
        /\ match.asks[j].quantity >= 0

\* the partial fill of the claim: a sole bid 5 @ 100 against a sole ask 2 @ 90
C18_Example ==
    /\ match_input.bids = <<BidAsk("b1", "bid", 100000, 5, 1)>>
    /\ match_input.asks = <<BidAsk("s1", "ask", 90000, 2, 1)>>

C19_NoMissedMatch ==
    MatchDone =>
        \A i \in DOMAIN match.bids, j \in DOMAIN match.asks :
            (match.bids[i].quantity > 0 /\ match.asks[j].quantity > 0) =>
                match.bids[i].price < match.asks[j].price

C19_Witness ==
    /\ MatchDone
    /\ match.transactions # <<>>
    /\ \E i \in DOMAIN match.bids, j \in DOMAIN match.asks :
        /\ match.bids[i].quantity > 0 /\ match.asks[j].quantity > 0
        /\ match.bids[i].quantity < match_input.bids[i].quantity

\* order i of a side has received a fill
Filled(now, given, i) == now[i].quantity < given[i].quantity

\* order j precedes order i on its side: a better price (sign = 1 for bids,
\* higher is better; sign = -1 for asks), or the same price and an earlier
\* place in the input list
Precedes(given, j, i, sign) ==
    \/ sign * given[j].price > sign * given[i].price
    \/ given[j].price = given[i].price /\ j < i

\* the price of the input order of the agent named id
PriceOf(given, id) ==
    given[CHOOSE i \in DOMAIN given : given[i].agent_id = id].price

\* C20: the matching consumes bids in non-increasing and asks in
\* non-decreasing price order, and among orders of one side at one price the
\* one earlier in the input list first: an order has a fill only when every
\* order of its side with a strictly better price, and every earlier one
\* with the same price, is completely filled.
C20_PriceThenSubmissionPriority ==
    /\ \A i, j \in DOMAIN match.bids :
        (Filled(match.bids, match_input.bids, i)
         /\ Precedes(match_input.bids, j, i, 1)) => match.bids[j].quantity = 0
    /\ \A i, j \in DOMAIN match.asks :
        (Filled(match.asks, match_input.asks, i)
         /\ Precedes(match_input.asks, j, i, 0 - 1)) =>
            match.asks[j].quantity = 0
    /\ \A k, l \in DOMAIN match.transactions :
        k < l =>
            /\ PriceOf(match_input.bids, match.transactions[k].buyer_id)
                 >= PriceOf(match_input.bids, match.transactions[l].buyer_id)
            /\ PriceOf(match_input.asks, match.transactions[k].seller_id)
                 <= PriceOf(match_input.asks, match.transactions[l].seller_id)

C20_Witness ==
    /\ MatchDone
    /\ Len(match_input.bids) = 2 /\ Len(match_input.asks) = 2
    /\ match_input.bids[1].price = match_input.bids[2].price
    /\ match_input.asks[1].price > match_input.asks[2].price
    /\ match.bids[1].quantity = 0
    /\ Filled(match.bids, match_input.bids, 2)
    /\ Filled(match.asks, match_input.asks, 1)
    /\ Len(match.transactions) = 3

----------------------------------------------------------------------------
(* Properties of the simulation engine (Spec).                             *)

\* the agents of the two classes the repository provides
BuiltIn(i) == agents[i].kind \in {"rule_based", "llm"}

\* C1: after every settlement, and so at the end of every round, every
\* rule-based or policy-driven agent has funds >= 0 and inventory >= 0.
C1_NeverNegative ==
    \A i \in DOMAIN agents :
        BuiltIn(i) =>
            /\ agents[i].funds # None => agents[i].funds[1] >= 0
            /\ agents[i].inventory # None => agents[i].inventory[1] >= 0

\* the transactions a step appends to the log
NewTransactions ==
    SubSeq(market_state'.transaction_log,
           Len(market_state.transaction_log) + 1,
           Len(market_state'.transaction_log))

\* the funds a list of transactions moves to the agent named id
NetFunds(id, txs) ==
    SeqSum([k \in DOMAIN txs |->
        (IF txs[k].seller_id = id THEN txs[k].price * txs[k].quantity ELSE 0)
        - (IF txs[k].buyer_id = id THEN txs[k].price * txs[k].quantity ELSE 0)])

\* the units a list of transactions moves to the agent named id
NetInventory(id, txs) ==
    SeqSum([k \in DOMAIN txs |->
        (IF txs[k].buyer_id = id THEN txs[k].quantity ELSE 0)
        - (IF txs[k].seller_id = id THEN txs[k].quantity ELSE 0)])

C2_Step ==
    /\ Len(market_state'.transaction_log) >= Len(market_state.transaction_log)
    /\ \A i \in DOMAIN agents :
        /\ agents'[i].funds = Some(agents[i].funds[1]
              + NetFunds(agents[i].agent_id, NewTransactions))
        /\ agents'[i].inventory = Some(agents[i].inventory[1]
              + NetInventory(agents[i].agent_id, NewTransactions))

\* C2: each transaction of a round takes price*quantity from its buyer's funds
\* and adds quantity to its inventory, and adds price*quantity to its seller's
\* funds and takes quantity from its inventory; an agent's change over the
\* round is the sum of these over the round's transactions that name it.
C2_ExactSettlement == [][C2_Step]_vars

C2_Witness ==
    /\ pc = "loop"
    /\ Len(market_state.transaction_log) = 2
    /\ market_state.transaction_log[1].round = 1
    /\ market_state.transaction_log[2].round = 1
    /\ market_state.transaction_log[1].seller_id
         = market_state.transaction_log[2].seller_id
    /\ market_state.transaction_log[1].buyer_id
         # market_state.transaction_log[2].buyer_id

\* the claim's check of an order against the agent that returned it
Admissible(agent, order) ==
    /\ order.bid_ask_type = (IF agent.agent_type = "buyer" THEN "bid" ELSE "ask")
    /\ order.bid_ask_type = "bid" =>
            agent.funds[1] >= order.price * order.quantity
    /\ order.bid_ask_type = "ask" => agent.inventory[1] >= order.quantity

\* C3: the orders collected for matching are exactly, in polling order, the
\* orders returned in this round by agents whose type matches the side and
\* who hold funds >= price*quantity (bid) or inventory >= quantity (ask); a
\* returned order failing either check is not among them.
C3_OnlyAdmissibleOrders ==
    pc = "gather" =>
        LET kept == SelectSeq(poll_log, LAMBDA e :
                        e.result # None
                        /\ Admissible(agents[e.agent], e.result[1]))
        IN  actions = [k \in DOMAIN kept |-> kept[k].result[1]]

C3_Witness ==
    /\ pc = "gather"
    /\ actions # <<>>
    /\ \E k \in DOMAIN poll_log :
        /\ poll_log[k].round = Len(simulation_history) + 1
        /\ poll_log[k].result # None
        /\ poll_log[k].result[1].bid_ask_type = "bid"
        /\ agents[poll_log[k].agent].agent_type = "buyer"
        /\ ~Admissible(agents[poll_log[k].agent], poll_log[k].result[1])

\* the snapshots of a history carry the round numbers 1, 2, ... in order
NumberedInOrder(history) ==
    \A k \in DOMAIN history : history[k].current_round = k

C7_Step ==
    (pc \in {"idle", "loop"} /\ market_state.current_round >= num_rounds) =>
        /\ UNCHANGED <<market_state, simulation_history, agents>>
        /\ pc' # "gather"
        /\ poll_log' = poll_log
        /\ (returned # None /\ returned' # returned) =>
              returned'[1].history = returned[1].history

\* C7: once current_round has reached num_rounds, calling run_simulation runs
\* no round and polls no agent, leaves the market state, the history and every
\* agent's funds and inventory as they are, and returns the history the first
\* call returned.
C7_ReinvocationIsNoOp == [][C7_Step]_vars

C7_Witness ==
    /\ pc = "loop"
    /\ returned # None
    /\ num_rounds = 2
    /\ Len(returned[1].history) = 2
    /\ market_state.transaction_log # <<>>

C8_Step ==
    (pc = "loop" /\ pc' = "idle" /\ returned # None) =>
        returned'[1].error = returned[1].error

\* C8: a call of run_simulation made after the target number of rounds was
\* reached returns the operational error the completed run returned.
C8_ErrorSurvivesReinvocation == [][C8_Step]_vars

\* the error a list of failures calls for: the message of the first
FirstFailure(failed) ==
    IF failed = <<>> THEN None
    ELSE Some(ErrorMessage(failed[1].agent_id, failed[1].round))

C9_Step ==
    (pc # "idle" /\ llm_operational_error # None) =>
        llm_operational_error' = llm_operational_error

\* C9: within one run the recorded operational error is never overwritten or
\* cleared, and it names the first policy-driven agent, in polling order, that
\* returned no action, and the round of that poll; run_simulation returns it.
C9_FirstErrorWins ==
    /\ [](llm_operational_error = FirstFailure(failures))
    /\ [][C9_Step]_vars
    /\ [][(pc = "loop" /\ pc' = "idle") =>
            returned'[1].error = FirstFailure(failures)]_vars

C9_Witness ==
    /\ pc = "loop"
    /\ Len(simulation_history) = 2
    /\ llm_operational_error = Some(ErrorMessage("seller_1", 1))
    /\ Len(failures) >= 3
    /\ failures[1] = [agent_id |-> "seller_1", round |-> 1]
    /\ failures[2] = [agent_id |-> "buyer_1", round |-> 1]
    /\ failures[3].round = 2

\* the market state as round r found it: the snapshot round r-1 left, with
\* the counter incremented
StateBeforeRound(r) ==
    IF r = 1 THEN MarketState(1, <<>>, <<>>, <<>>, <<>>)
    ELSE [simulation_history[r - 1] EXCEPT !.current_round = r]

\* C10: in the decision phase of round N every agent is handed the same
\* market state, with current_round = N and the transaction log and price
\* history of the end of round N-1, whatever the polling order, whatever the
\* other agents decided and whatever they did to the object they were handed;
\* a decision leaves the engine's market state as it was.
C10_FrozenSnapshot ==
    /\ [](\A k \in DOMAIN poll_log :
            /\ poll_log[k].round - 1 <= Len(simulation_history)
            /\ poll_log[k].snapshot = StateBeforeRound(poll_log[k].round))
    /\ [][(pc = "gather" /\ pc' = "gather") => market_state' = market_state]_vars

C10_Witness ==
    /\ pc = "gather"
    /\ \E k, l \in DOMAIN poll_log :
        /\ k < l
        /\ poll_log[k].round = 2 /\ poll_log[l].round = 2
        /\ poll_log[k].left_as # poll_log[k].snapshot
        /\ poll_log[l].snapshot.transaction_log # <<>>
        /\ poll_log[l].snapshot.current_round = 2

----------------------------------------------------------------------------
(* Properties of the setup (SpecSetup).                                    *)

\* the agent holds the resource of its side
HasResource(agent) ==
    /\ agent.agent_type = "buyer" => agent.funds # None
    /\ agent.agent_type = "seller" => agent.inventory # None

\* C11: a buyer config without initial_funds, or a seller config without
\* initial_inventory, fails at construction: no agent that setup builds, and
\* no agent of a simulation, is a buyer with undefined funds or a seller with
\* undefined inventory.
C11_ResourcesRequired ==
    /\ setup # None => \A i \in DOMAIN setup[1].agents :
                            HasResource(setup[1].agents[i])
    /\ \A i \in DOMAIN agents : HasResource(agents[i])

\* the constructor call last made asked for a RuleBasedAgent from a config
\* without valuation_or_cost
RuleBasedWithoutValuation ==
    /\ setup # None /\ setup[1].last # None
    /\ setup[1].last[1].kind = "rule_based"
    /\ setup[1].last[1].config.valuation_or_cost = None

\* the constructor call last made asked for an LLMAgent from a config whose
\* llm_persona_prompt_key is missing or empty
LLMWithoutKey ==
    /\ setup # None /\ setup[1].last # None
    /\ setup[1].last[1].kind = "llm"
    /\ setup[1].last[1].config.llm_persona_prompt_key \in {None, Some("")}

\* C12: constructing a RuleBasedAgent from a config without valuation_or_cost,
\* or an LLMAgent from a config whose llm_persona_prompt_key is missing or
\* empty, raises the constructor's ValueError; the exception ends the setup,
\* so no simulation is constructed and no round runs, and no agent built
\* lacks the field its class requires.
C12_IncompleteConfigRaises ==
    /\ RuleBasedWithoutValuation =>
          /\ setup[1].last[1].outcome = Raised(
                "RuleBasedAgent requires valuation_or_cost in its config.")
          /\ setup[1].stage = "raised"
    /\ LLMWithoutKey =>
          /\ setup[1].last[1].outcome = Raised(
                "LLMAgent requires llm_persona_prompt_key in its config.")
          /\ setup[1].stage = "raised"
    /\ (setup # None /\ setup[1].stage = "raised") =>
          /\ setup[1].raised # None
          /\ NoSimulation
    /\ setup # None => \A i \in DOMAIN setup[1].agents :
          setup[1].agents[i].kind = "rule_based" =>
              setup[1].agents[i].valuation_or_cost # None

C12_Witness ==
    /\ RuleBasedWithoutValuation
    /\ setup[1].stage = "raised"
    /\ Len(setup[1].agents) = 2
    /\ setup[1].last[1].config.agent_id = "seller_1"

\* C13: for every num_buyers >= 0 and num_sellers >= 0, a setup with an
\* agent_type other than "rule_based" and "llm" does not return: it raises,
\* with "Unsupported agent type" unless a config failed validation before, and
\* no simulation is constructed.
C13_UnsupportedTypeRaises ==
    (setup # None /\ setup[1].agent_type \notin {"rule_based", "llm"}) =>
        /\ setup[1].stage \in {"building", "raised"}
        /\ setup[1].stage = "raised" =>
              setup[1].raised \in {Some("Unsupported agent type"),
                                   Some("ValidationError")}
        /\ NoSimulation

----------------------------------------------------------------------------
(* Properties of decide_action (SpecDecide).                               *)

\* a call of RuleBasedAgent.decide_action has returned
RuleBasedDecided ==
    /\ decision # None /\ decision[1].called
    /\ decision[1].agent.kind = "rule_based"

\* the drawn price: the draw times the valuation or cost, to 2 decimals
DrawnPrice ==
    Round2(decision[1].input[1] * decision[1].agent.valuation_or_cost[1], 1000)

\* the order of one unit at the drawn price, in the agent's name and the
\* snapshot's round
OneUnitOrder(side) ==
    Some(BidAsk(decision[1].agent.agent_id, side, DrawnPrice, 1,
                decision[1].market_state.current_round))

\* the drawn price lies in [lo*v, hi*v] (lo, hi in thousandths), up to the
\* rounding to 2 decimals
DrawnWithin(lo, hi) ==
    LET v == decision[1].agent.valuation_or_cost[1]
    IN  /\ lo * v - 5000 <= 1000 * DrawnPrice
        /\ 1000 * DrawnPrice <= hi * v + 5000

\* the statement of C14 for the returned call; needsPrice says whether a
\* drawn price of zero keeps the agent from ordering
RuleBasedOrders(needsPrice) ==
    LET a == decision[1].agent
        priced == ~needsPrice \/ DrawnPrice > 0
    IN  /\ a.agent_type = "buyer" =>
              /\ DrawnWithin(800, 950)
              /\ decision[1].result =
                    IF a.funds # None /\ a.funds[1] > 0
                       /\ a.funds[1] >= DrawnPrice /\ priced
                    THEN OneUnitOrder("bid") ELSE None
              /\ (a.funds = Some(10000) /\ a.valuation_or_cost = Some(100000))
                    => decision[1].result = None
        /\ a.agent_type = "seller" =>
              /\ DrawnWithin(1050, 1200)
              /\ decision[1].result =
                    IF a.inventory # None /\ a.inventory[1] > 0 /\ priced
                    THEN OneUnitOrder("ask") ELSE None

\* C14 as stated: a rule-based buyer with valuation v returns a bid of
\* quantity 1 at the drawn price p in [0.80v, 0.95v] exactly when funds > 0
\* and funds >= p, and otherwise no order; a rule-based seller with cost c
\* returns an ask of quantity 1 at a price in [1.05c, 1.20c] exactly when
\* inventory > 0, and otherwise no order; a buyer with funds 10 and valuation
\* 100 never orders.
C14_RuleBasedOrders == RuleBasedDecided => RuleBasedOrders(FALSE)

\* C14 amended: as above, with the further condition on both sides that the
\* drawn price, rounded to 2 decimals, is > 0 (it is not when the valuation
\* or cost is 0).
C14_RuleBasedOrdersPositivePrice == RuleBasedDecided => RuleBasedOrders(TRUE)

C14_Witness ==
    /\ RuleBasedDecided
    /\ decision[1].agent.agent_type = "buyer"
    /\ decision[1].agent.funds = Some(90000)
    /\ decision[1].agent.valuation_or_cost = Some(100000)
    /\ decision[1].input = Some(900)
    /\ decision[1].result = Some(BidAsk("buyer_1", "bid", 90000, 1, 2))

\* a call of LLMAgent.decide_action has ended
LLMDecided ==
    /\ decision # None /\ decision[1].called
    /\ decision[1].agent.kind = "llm"

\* the side an agent may order on
OwnSide(agent) == IF agent.agent_type = "buyer" THEN "bid" ELSE "ask"

\* the reply is a JSON object with an action string, read without regard to
\* letter case, equal to `act`
ActionIs(reply, act) ==
    /\ reply.outcome = "json" /\ reply.action # None
    /\ Lower(reply.action[1]) = act

\* the raw field is a number > 0, and a whole number if `whole`
PositiveNumber(raw, whole) ==
    /\ raw.kind \in (IF whole THEN {"number"} ELSE {"number", "fraction"})
    /\ raw.value > 0

\* C15: an LLMAgent returns an order only if the parsed response has the
\* action of the agent's own side (bid for a buyer, ask for a seller, in any
\* letter case), a price that is a number > 0 and a quantity that is a
\* positive integer; a response with another action, a missing, non-numeric
\* or non-positive price, or a missing, non-numeric, non-positive or
\* non-integer quantity yields no order; a returned order carries the parsed
\* price and quantity, the agent's id and the snapshot's round.
C15_ParsedOrdersOnly ==
    (LLMDecided /\ decision[1].result # None) =>
        LET a == decision[1].agent
            reply == decision[1].input[1]
        IN  /\ ActionIs(reply, OwnSide(a))
            /\ PositiveNumber(reply.price, TRUE)
            /\ PositiveNumber(reply.quantity, TRUE)
            /\ decision[1].result = Some(BidAsk(a.agent_id, OwnSide(a),
                    reply.price.value, reply.quantity.value,
                    decision[1].market_state.current_round))

\* the cases C16 lists, for the reply the agent was given
C16_Case ==
    LET a == decision[1].agent
        reply == decision[1].input[1]
        wellFormed == /\ ActionIs(reply, OwnSide(a))
                      /\ PositiveNumber(reply.price, TRUE)
                      /\ PositiveNumber(reply.quantity, TRUE)
    IN  \/ ActionIs(reply, "pass")
        \/ reply.outcome \in {"bad_json", "llm_error", "no_response"}
        \/ reply.outcome = "json"
             /\ \/ reply.action = None
                \/ reply.price.kind = "missing" /\ ~ActionIs(reply, "pass")
                \/ reply.quantity.kind = "missing" /\ ~ActionIs(reply, "pass")
        \/ wellFormed /\ a.agent_type = "buyer" /\ a.funds # None
             /\ reply.price.value * reply.quantity.value > a.funds[1]
        \/ wellFormed /\ a.agent_type = "seller" /\ a.inventory # None
             /\ reply.quantity.value > a.inventory[1]

C21_ProvidersConsultedOnce ==
    (LLMDecided /\ ~decision[1].raised) =>
        /\ decision[1].get_prompt_calls = 1
        /\ decision[1].generate_text_calls <= 1
        /\ (\/ decision[1].template = None
            \/ decision[1].input[1].outcome = "render_error"
            \/ decision[1].template = Some("missing_key"))
              => /\ decision[1].generate_text_calls = 0
                 /\ decision[1].result = None

\* the part of C21 the code keeps: one consultation of the template
\* provider, at most one of the generation provider, and neither a call of
\* the latter nor an action when no template is delivered or rendering raises
C21_OnceAndNoneWithoutPrompt ==
    (LLMDecided /\ ~decision[1].raised) =>
        /\ decision[1].get_prompt_calls = 1
        /\ decision[1].generate_text_calls <= 1
        /\ (\/ decision[1].template = None
            \/ decision[1].input[1].outcome = "render_error")
              => /\ decision[1].generate_text_calls = 0
                 /\ decision[1].result = None

\* a template that references a key the context lacks is rendered, the
\* generation provider is called and its bid is returned
C21_MissingKeyOrders ==
    /\ LLMDecided
    /\ decision[1].template = Some("missing_key")
    /\ decision[1].generate_text_calls = 1
    /\ decision[1].result # None

----------------------------------------------------------------------------
(* Properties of the display aggregation (Spec).                           *)

\* the series of `results` are the ones the claim describes for `history`
C17_Series(results, history) ==
    /\ Len(results.rounds) = Len(history)
    /\ Len(results.average_prices) = Len(history)
    /\ Len(results.volumes) = Len(history)
    /\ Len(results.num_transactions_per_round) = Len(history)
    /\ \A k \in DOMAIN history :
        LET entries == SelectSeq(history[k].price_history,
                           LAMBDA ph : ph.round = history[k].current_round)
        IN  /\ results.rounds[k] = history[k].current_round
            /\ entries = <<>> =>
                  /\ results.average_prices[k] =
                        (IF k = 1 THEN None ELSE results.average_prices[k - 1])
                  /\ results.volumes[k] = 0
                  /\ results.num_transactions_per_round[k] = 0
            /\ entries # <<>> =>
                  /\ Len(entries) = 1
                  /\ results.average_prices[k] = Some(entries[1].average_price)
                  /\ results.volumes[k] = entries[1].volume
                  /\ results.num_transactions_per_round[k]
                        = entries[1].num_transactions
    /\ results.all_transactions =
          (IF history = <<>> THEN <<>>
           ELSE history[Len(history)].transaction_log)
    /\ \A k, l \in DOMAIN results.all_transactions :
          k <= l => results.all_transactions[k].round
                        <= results.all_transactions[l].round

C17_Step ==
    (display # None /\ display' # None) =>
        /\ display' = display
        /\ simulation_history' = simulation_history

\* C17: the display aggregation of a history has one entry per snapshot in
\* each of the series rounds, average prices, volumes and transaction counts;
\* a snapshot whose round has no price-history entry gets the previous
\* average price (none for the first) and volume and count 0; the flat list
\* holds every transaction of the run once, in round order; aggregating the
\* unchanged history again gives the same result and leaves the history as
\* it was.
C17_DisplayAggregation ==
    /\ [](display # None => C17_Series(display[1], simulation_history))
    /\ [][C17_Step]_vars

C17_Witness ==
    /\ display # None
    /\ Len(simulation_history) = 2
    /\ display[1].average_prices[1] # None
    /\ display[1].average_prices[2] = display[1].average_prices[1]
    /\ display[1].volumes = <<2, 0>>
    /\ Len(display[1].all_transactions) = 2

----------------------------------------------------------------------------
(* Properties of the records the engine keeps (Spec).                      *)

\* the transactions of a log that are stamped round r
StampedRound(log, r) == SelectSeq(log, LAMBDA t : t.round = r)

\* the market states to look at after a round: every snapshot of the
\* history, and the engine's own state
RecordedStates ==
    {simulation_history[k] : k \in DOMAIN simulation_history}
    \cup {market_state}

\* price_history of ms is the one C22 describes for the log of ms
C22_Describes(ms) ==
    LET ph == ms.price_history
    IN  /\ \A r \in 1..ms.current_round :
              (\E k \in DOMAIN ph : ph[k].round = r)
                  <=> StampedRound(ms.transaction_log, r) # <<>>
        /\ \A k \in DOMAIN ph :
              LET txs == StampedRound(ms.transaction_log, ph[k].round)
                  volume == SeqSum([j \in DOMAIN txs |-> txs[j].quantity])
                  turnover == SeqSum([j \in DOMAIN txs |->
                                        txs[j].price * txs[j].quantity])
                  off == ph[k].average_price * volume - turnover
              IN  /\ ph[k].round \in 1..ms.current_round
                  /\ ph[k].volume = volume
                  /\ ph[k].num_transactions = Len(txs)
                  /\ ph[k].average_price % 10 = 0
                  /\ 2 * off <= 10 * volume /\ 2 * (0 - off) <= 10 * volume
        /\ \A k, l \in DOMAIN ph : k < l => ph[k].round < ph[l].round

\* C22: after every round, price_history has an entry for round r if and
\* only if round r produced at least one transaction; the entry's volume is
\* the sum of the quantities of that round's transactions, its count their
\* number, its average price their quantity-weighted mean price rounded to 2
\* decimals; the entries are in strictly increasing round order, at most one
\* per round.
C22_PriceHistory == \A ms \in RecordedStates : C22_Describes(ms)

\* two rounds were run: the first without a transaction and without an
\* entry, the second with one transaction of 3 units and its entry
C22_Witness ==
    /\ Len(simulation_history) = 2
    /\ StampedRound(simulation_history[2].transaction_log, 1) = <<>>
    /\ Len(simulation_history[2].price_history) = 1
    /\ simulation_history[2].price_history[1].round = 2
    /\ simulation_history[2].price_history[1].volume = 3
    /\ simulation_history[2].price_history[1].num_transactions = 1

\* s is a prefix of t
IsPrefix(s, t) == Len(s) <= Len(t) /\ SubSeq(t, 1, Len(s)) = s

\* the log of the snapshot of round n, the empty log for n = 0
LogAfterRound(n) ==
    IF n = 0 THEN <<>> ELSE simulation_history[n].transaction_log

\* the logs of the snapshots: each one continues the one before it with
\* transactions stamped with its own round, and is a prefix of every later one
C23_LogsContinue ==
    /\ \A n \in DOMAIN simulation_history :
          /\ IsPrefix(LogAfterRound(n - 1), LogAfterRound(n))
          /\ \A k \in (Len(LogAfterRound(n - 1)) + 1)..Len(LogAfterRound(n)) :
                LogAfterRound(n)[k].round = n
    /\ \A m, n \in DOMAIN simulation_history :
          m <= n => IsPrefix(LogAfterRound(m), LogAfterRound(n))
    /\ IsPrefix(LogAfterRound(Len(simulation_history)),
                market_state.transaction_log)

\* a step: the log grows only at the end of a round, by exactly the
\* transactions the matching of that round emitted, in the order of
\* emission; the snapshot taken then holds that log; the snapshots taken
\* before stay as they are
C23_Step ==
    /\ IF pc = "gather" /\ pc' = "loop"
       THEN /\ market_state'.transaction_log =
                    market_state.transaction_log
                    \o TransactionsOfRound(market_state, actions)
            /\ \A k \in DOMAIN NewTransactions :
                    NewTransactions[k].round = market_state.current_round
            /\ Len(simulation_history') = Len(simulation_history) + 1
            /\ simulation_history'[Len(simulation_history')].transaction_log
                    = market_state'.transaction_log
       ELSE /\ market_state'.transaction_log = market_state.transaction_log
            /\ Len(simulation_history') = Len(simulation_history)
    /\ \A k \in DOMAIN simulation_history :
            simulation_history'[k] = simulation_history[k]

\* C23: the transaction log is append-only and ordered: the log after round
\* N is the log after round N-1 followed by exactly the transactions round N
\* emitted, in emission order, all stamped round = N; each snapshot's log is
\* a prefix of every later snapshot's log, and earlier snapshots are never
\* altered.
C23_AppendOnlyLog == [][C23_Step]_vars /\ []C23_LogsContinue

\* two rounds with one transaction each: the second snapshot's log is the
\* first one's followed by the transaction of round 2
C23_Witness ==
    /\ Len(simulation_history) = 2
    /\ Len(LogAfterRound(1)) = 1
    /\ Len(LogAfterRound(2)) = 2
    /\ LogAfterRound(2)[1] = LogAfterRound(1)[1]
    /\ LogAfterRound(2)[1].round = 1
    /\ LogAfterRound(2)[2].round = 2

\* the step polls an agent
C24_Polls == pc = "gather" /\ Len(poll_log') = Len(poll_log) + 1

\* a poll records the operational error only if the polled agent is an
\* LLMAgent whose decision failed: it returned nothing and did not choose to
\* pass
C24_Step ==
    (C24_Polls /\ llm_operational_error' # llm_operational_error) =>
        LET poll == poll_log'[Len(poll_log')]
        IN  /\ agents[poll.agent].kind = "llm"
            /\ poll.result = None
            /\ ~poll.passed

\* C24: an operational error is recorded only when a policy-driven agent's
\* decision actually fails (template or provider failure, unparseable or
\* invalid response); a well-formed pass does not cause an operational
\* error, and a rule-based agent that returns no order never does.
C24_ErrorOnlyOnFailure == [][C24_Step]_vars

\* the part of C24 the code keeps: only a poll of an LLMAgent that returned
\* nothing records the error
C24_OnlyLLMAgents ==
    [][(C24_Polls /\ llm_operational_error' # llm_operational_error) =>
        LET poll == poll_log'[Len(poll_log')]
        IN  agents[poll.agent].kind = "llm" /\ poll.result = None]_vars

\* an LLMAgent passed and the error names it
C24_PassRecorded ==
    /\ poll_log # <<>>
    /\ poll_log[1].passed
    /\ llm_operational_error =
          Some(ErrorMessage(agents[poll_log[1].agent].agent_id, poll_log[1].round))

----------------------------------------------------------------------------
(* Properties of the trade price (SpecMatch).                              *)

\* a step of the matching that trades prices the transaction between the
\* ask and the bid under the cursors
C25_Step ==
    (match'.transactions # match.transactions) =>
        LET bid == match.bids[match.sorted_bids[match.bid_idx]]
            ask == match.asks[match.sorted_asks[match.ask_idx]]
            tx == match'.transactions[Len(match'.transactions)]
        IN  /\ ask.price <= tx.price
            /\ tx.price <= bid.price

\* C25: every transaction's price p satisfies ask price <= p <= bid price of
\* the two matched orders, also after rounding and for order prices with
\* more than 2 decimals; so the buyer is never charged more than the
\* price * quantity of the bid that passed the funds check and the seller
\* never receives less per unit than asked.
C25_PriceWithinSpread == [][C25_Step]_vars

\* the part of C25 the code keeps: the price lies between the two order
\* prices when both are whole numbers of cents
C25_WithinSpreadOfCentPrices ==
    [][(match'.transactions # match.transactions) =>
        LET bid == match.bids[match.sorted_bids[match.bid_idx]]
            ask == match.asks[match.sorted_asks[match.ask_idx]]
            tx == match'.transactions[Len(match'.transactions)]
        IN  (bid.price % 10 = 0 /\ ask.price % 10 = 0) =>
                (ask.price <= tx.price /\ tx.price <= bid.price)]_vars

\* a bid and an ask at 100.006 traded at 100.01
C25_AboveBid ==
    \E k \in DOMAIN match.transactions, i \in DOMAIN match_input.bids :
        /\ match_input.bids[i].agent_id = match.transactions[k].buyer_id
        /\ match_input.bids[i].price = 100006
        /\ match.transactions[k].price = 100010

----------------------------------------------------------------------------
(* Conservation (Spec).                                                    *)

\* the list the simulation was constructed on
SetupRoster ==
    CHOOSE R \in Rosters :
        /\ Len(R) = Len(agents)
        /\ \A i \in DOMAIN R : /\ R[i].agent_id = agents[i].agent_id
                                /\ R[i].kind = agents[i].kind

\* the agents of the list have pairwise distinct ids
DistinctIds(ags) ==
    \A i, j \in DOMAIN ags : ags[i].agent_id = ags[j].agent_id => i = j

\* the funds of all agents of the list, in mills
TotalFunds(ags) == SeqSum([i \in DOMAIN ags |-> ags[i].funds[1]])

\* the units all agents of the list hold
TotalInventory(ags) == SeqSum([i \in DOMAIN ags |-> ags[i].inventory[1]])

\* C26: for agents with pairwise distinct ids, the sum of all agents' funds
\* and the sum of all agents' inventories are, after every round, what
\* they were at setup: a transaction moves price * quantity from its buyer
\* to its seller and quantity units the other way, both being found and
\* updated.
C26_Conservation ==
    DistinctIds(agents) =>
        /\ TotalFunds(agents) = TotalFunds(SetupRoster)
        /\ TotalInventory(agents) = TotalInventory(SetupRoster)

\* a round has traded: the buyer holds less money than at setup, the seller
\* fewer units
C26_Witness ==
    /\ DistinctIds(agents)
    /\ pc = "loop" /\ market_state.transaction_log # <<>>
    /\ \E i, j \in DOMAIN agents :
        /\ agents[i].funds[1] < SetupRoster[i].funds[1]
        /\ agents[j].inventory[1] < SetupRoster[j].inventory[1]

----------------------------------------------------------------------------
(* The orders of a round (Spec).                                           *)

\* no two orders of the list carry the same agent id
OnePerAgent(orders) ==
    \A k, l \in DOMAIN orders :
        orders[k].agent_id = orders[l].agent_id => k = l

\* the orders the engine accepted in the running round: each is what a
\* polled agent returned in this round, carries that agent's id and the
\* current round, and no agent has two
C27_Accepted ==
    pc = "gather" =>
        /\ OnePerAgent(actions)
        /\ \A k \in DOMAIN actions :
              /\ actions[k].round = market_state.current_round
              /\ \E e \in DOMAIN poll_log :
                    /\ poll_log[e].result = Some(actions[k])
                    /\ poll_log[e].round = market_state.current_round
                    /\ agents[poll_log[e].agent].agent_id = actions[k].agent_id
        /\ \A e, f \in DOMAIN poll_log :
              poll_log[e].agent = poll_log[f].agent => e = f

\* the bids and asks of the market state ms were all placed in its round,
\* at most one by each agent
C27_OrdersOfRound(ms) ==
    /\ \A k \in DOMAIN ms.bids : ms.bids[k].round = ms.current_round
    /\ \A k \in DOMAIN ms.asks : ms.asks[k].round = ms.current_round
    /\ OnePerAgent(ms.bids \o ms.asks)

\* C27: in each round each agent contributes at most one accepted order,
\* every accepted order carries the id of the polled agent and round = the
\* current round, and after round N the market state's bids and asks hold
\* only orders placed in round N.
C27_OneOrderPerAgentAndRound ==
    /\ C27_Accepted
    /\ \A n \in DOMAIN simulation_history :
          /\ simulation_history[n].current_round = n
          /\ C27_OrdersOfRound(simulation_history[n])
    /\ pc # "gather" => C27_OrdersOfRound(market_state)

\* round 2 ended with a bid and an ask placed in round 2, round 1 having
\* ended with orders of its own
C27_Witness ==
    /\ pc = "loop" /\ Len(simulation_history) = 2
    /\ simulation_history[1].bids # <<>>
    /\ simulation_history[1].bids[1].round = 1
    /\ market_state.bids # <<>> /\ market_state.asks # <<>>
    /\ market_state.bids[1].round = 2 /\ market_state.asks[1].round = 2
    /\ Len(actions) = 2

\* every bid and ask the market state ms holds has a quantity of at least 1
C28_Positive(ms) ==
    /\ \A k \in DOMAIN ms.bids : ms.bids[k].quantity >= 1
    /\ \A k \in DOMAIN ms.asks : ms.asks[k].quantity >= 1

\* C28: every order held in the market state's bids and asks, in the
\* engine's state, in every history snapshot and in the snapshot the agents
\* of the next round are handed, has quantity >= 1.
C28_HeldOrdersPositive ==
    /\ C28_Positive(market_state)
    /\ \A n \in DOMAIN simulation_history :
            C28_Positive(simulation_history[n])
    /\ \A e \in DOMAIN poll_log : C28_Positive(poll_log[e].snapshot)

\* the part of C28 the code keeps: every order the engine accepts has a
\* quantity of at least 1
C28_AcceptedPositive ==
    \A k \in DOMAIN actions : actions[k].quantity >= 1

\* the snapshot of round 1 holds a filled order with quantity 0, and an
\* agent of round 2 was handed it
C28_FilledOrderKept ==
    /\ Len(simulation_history) >= 1
    /\ \E k \in DOMAIN simulation_history[1].asks :
            simulation_history[1].asks[k].quantity = 0
    /\ \E e \in DOMAIN poll_log :
        /\ poll_log[e].round = 2
        /\ \E k \in DOMAIN poll_log[e].snapshot.asks :
                poll_log[e].snapshot.asks[k].quantity = 0

----------------------------------------------------------------------------
(* Termination of the matching (SpecMatchFair).                            *)

\* a pass of the loop either leaves it or advances at least one cursor, and
\* no cursor moves back
C29_Step ==
    match.running =>
        /\ match'.bid_idx >= match.bid_idx
        /\ match'.ask_idx >= match.ask_idx
        /\ \/ ~match'.running
           \/ match'.bid_idx > match.bid_idx
           \/ match'.ask_idx > match.ask_idx

\* every emitted transaction has a quantity of at least 1, and there are at
\* most |bids| + |asks| - 1 of them, none when a side is empty
C29_Bounded ==
    /\ \A k \in DOMAIN match.transactions :
            match.transactions[k].quantity >= 1
    /\ IF match_input.bids = <<>> \/ match_input.asks = <<>>
       THEN match.transactions = <<>>
       ELSE Len(match.transactions)
                <= Len(match_input.bids) + Len(match_input.asks) - 1

\* C29: the matching terminates for every finite list of orders with
\* positive quantities: every pass of the loop either stops or advances at
\* least one cursor, every emitted transaction has quantity >= 1, and the
\* number of transactions is at most |bids| + |asks| - 1 (0 when either
\* side is empty).
C29_MatchingTerminates ==
    /\ <>MatchDone
    /\ [][C29_Step]_vars
    /\ []C29_Bounded

\* two bids and two asks end in three transactions, the most there can be
C29_Witness ==
    /\ MatchDone
    /\ Len(match_input.bids) = 2 /\ Len(match_input.asks) = 2
    /\ Len(match.transactions) = 3

----------------------------------------------------------------------------
(* The round counter under calls from outside (SpecPublic).                *)

\* the counter is within its bound, and between two calls it is the number
\* of snapshots taken
C30_CounterInBounds ==
    /\ market_state.current_round <= num_rounds
    /\ pc = "idle" => market_state.current_round = Len(simulation_history)

\* C30: under any sequence of calls of run_round and run_simulation,
\* current_round never decreases, never exceeds num_rounds, and always equals
\* the number of snapshots in the history.
C30_CounterUnderPublicCalls ==
    /\ []C30_CounterInBounds
    /\ [][market_state'.current_round >= market_state.current_round]_vars

\* the part of C30 the code keeps: the counter never decreases and, between
\* two calls, equals the number of snapshots in the history
C30_MonotoneAndCounted ==
    /\ [](pc = "idle" => market_state.current_round = Len(simulation_history))
    /\ [][market_state'.current_round >= market_state.current_round]_vars

\* run_round was called after the target was reached: three rounds were
\* run and recorded on a simulation of two
C30_PastTarget ==
    /\ pc = "idle"
    /\ num_rounds = 2
    /\ market_state.current_round = 3
    /\ Len(simulation_history) = 3

====
